---- MODULE Spec2Model ----
(***************************************************************************)
(* Hysteresis fan controller of kodi_scripts (fan_control.py and its       *)
(* reformatted copy src/fan_control.py): get_temp's parsing of the sensor  *)
(* output and main's threshold check, device construction and poll loop.   *)
(* The fan pin is shared with the outside world: the External action may   *)
(* change it between any two steps of the program.                         *)
(***************************************************************************)
EXTENDS Integers, Sequences, FiniteSets

VARIABLES
    script,         \* which copy of the script runs: "root" or "src"
    ON_THRESHOLD,   \* module global, degrees Celsius
    OFF_THRESHOLD,  \* module global, degrees Celsius
    SLEEP_INTERVAL, \* module global, seconds
    pc,             \* position of the program
    fan,            \* level of the GPIO pin: 1 on, 0 off (what fan.value reads)
    driven,         \* level the program last drove the pin to
    fan0,           \* level of the pin when the current iteration began
    temp_str,       \* the decoded stdout of the last vcgencmd run
    temp,           \* main's local: the last value get_temp returned
    exc,            \* the exception that ended the process, "none" while it runs
    trace,          \* what the program did in the current iteration, in order
    logged,         \* the reading carried by the last info record
    slept,          \* seconds of the last time.sleep
    ext_during,     \* the pin was changed from outside since this iteration began
    ext_between,    \* the pin was changed from outside between the end of the last
                    \* iteration (or the construction of the device) and this one
    startup,        \* until the first iteration is complete, the level the pin had
                    \* when the process started ("on", "off"); "done" afterwards
    same,           \* the reading of this iteration equals that of the last one
    prev            \* the last completed iteration: its commands, the level it
                    \* left and whether the pin was left alone during it

vars == <<script, ON_THRESHOLD, OFF_THRESHOLD, SLEEP_INTERVAL, pc, fan,
          driven, fan0, temp_str, temp, exc, trace, logged, slept, ext_during,
          ext_between, startup, same, prev>>

---------------------------------------------------------------------------
(* Bounds of the model *)

\* longest sensor output explored by the parsing specification
MaxLen == 4
\* longest numeral the sensor prints in the loop specification
MaxDigits == 2

---------------------------------------------------------------------------
(* Text: a string is a sequence of one-character strings *)

Digits == {"0", "1", "2", "3", "4", "5", "6", "7", "8", "9"}

DigitVal(c) ==
    CASE c = "0" -> 0 [] c = "1" -> 1 [] c = "2" -> 2 [] c = "3" -> 3
      [] c = "4" -> 4 [] c = "5" -> 5 [] c = "6" -> 6 [] c = "7" -> 7
      [] c = "8" -> 8 [] c = "9" -> 9

\* the characters sensor outputs are built from: a letter, the two
\* delimiters, two digits and the decimal point
Alphabet == {"t", "=", "'", "5", "6", "."}

Strings(n) == UNION {[1..k -> Alphabet] : k \in 0..n}

RECURSIVE Pow10(_)
Pow10(n) == IF n = 0 THEN 1 ELSE 10 * Pow10(n - 1)

\* str.split(sep): the pieces between the occurrences of sep, empty ones kept
RECURSIVE split(_, _)
split(s, sep) ==
    IF \A i \in 1..Len(s) : s[i] # sep
    THEN <<s>>
    ELSE LET i == CHOOSE k \in 1..Len(s) :
                      s[k] = sep /\ \A j \in 1..(k - 1) : s[j] # sep
         IN  <<SubSeq(s, 1, i - 1)>> \o split(SubSeq(s, i + 1, Len(s)), sep)

\* float(x) accepts x: over Alphabet, digits with at most one point and at
\* least one digit ("5", "5.", ".5", "5.5"); anything else is a ValueError
float_ok(x) ==
    /\ \A i \in 1..Len(x) : x[i] \in Digits \cup {"."}
    /\ Cardinality({i \in 1..Len(x) : x[i] = "."}) <= 1
    /\ \E i \in 1..Len(x) : x[i] \in Digits

RECURSIVE DigitsValue(_)
DigitsValue(x) ==
    IF Len(x) = 0 THEN 0
    ELSE 10 * DigitsValue(SubSeq(x, 1, Len(x) - 1)) + DigitVal(x[Len(x)])

RECURSIVE Normal(_)
Normal(v) ==
    IF v.e > 0 /\ v.m % 10 = 0 THEN Normal([m |-> v.m \div 10, e |-> v.e - 1])
    ELSE v

\* float(x) for an accepted x: the number m / 10^e
float(x) ==
    LET ds == SelectSeq(x, LAMBDA c : c \in Digits)
        p  == IF \E i \in 1..Len(x) : x[i] = "."
              THEN CHOOSE i \in 1..Len(x) : x[i] = "."
              ELSE Len(x)
    IN  Normal([m |-> DigitsValue(ds), e |-> Len(x) - p])

\* comparisons of a reading with an integer threshold
Gt(v, n) == v.m > n * Pow10(v.e)
Lt(v, n) == v.m < n * Pow10(v.e)
Eq(v, n) == v.m = n * Pow10(v.e)

\* main's temp before the first assignment
NoTemp == [m |-> -1, e |-> 0]

---------------------------------------------------------------------------
(* The sensor *)

\* the numerals vcgencmd prints in the loop specification: 5 and 6 lie below
\* both thresholds of the source, 55 and 65 on them, 56 between, 66 above
Numerals == UNION {[1..k -> {"5", "6"}] : k \in 1..MaxDigits}

\* vcgencmd measure_temp prints temp=<x>'C
measure_temp(x) == <<"t", "=">> \o x \o <<"'", "t">>

\* outputs of a sensor command that went wrong, or that lost its tail
Malformed ==
    { <<>>, <<"t">>, <<"t", "5", "'", "t">>, <<"t", "=", "t", "'", "t">>,
      <<"t", "=", "'", "t">>, <<"t", "=", "5">> }

SensorOutputs == {measure_temp(x) : x \in Numerals} \cup Malformed

\* every output of at most MaxLen characters
Outputs == Strings(MaxLen)

---------------------------------------------------------------------------
(* get_temp *)

ParseError == "RuntimeError: Could not parse temperature output."
ConfigError == "RuntimeError: OFF_THRESHOLD must be less than ON_THRESHOLD"

\* temp_str.split('=')[1].split('\'')[0]: the IndexError of [1], else the text
between(s) ==
    LET a == split(s, "=")
    IN  IF Len(a) < 2 THEN [raises |-> "IndexError", text |-> <<>>]
        ELSE [raises |-> "none", text |-> split(a[2], "'")[1]]

\* the expression of the return statement: a value, or the exception it raises
parse(s) ==
    LET b == between(s)
    IN  IF b.raises # "none" THEN [raises |-> b.raises, value |-> NoTemp]
        ELSE IF ~float_ok(b.text) THEN [raises |-> "ValueError", value |-> NoTemp]
        ELSE [raises |-> "none", value |-> float(b.text)]

\* only the ValueError of float() is caught
handler_value_only(e) == IF e = "ValueError" THEN ParseError ELSE e

\* except (IndexError, ValueError): raise RuntimeError(...)
handler(e) == IF e \in {"IndexError", "ValueError"} THEN ParseError ELSE e

\* subprocess.run(['vcgencmd', 'measure_temp'], ...) and stdout.decode(): the
\* first step of an iteration. check=True (the src copy) raises on a non-zero
\* exit status, outside what the except clause catches.
subprocess_run(outs) ==
    /\ pc = "get_temp"
    /\ \E rc \in {0, 1}, s \in outs :
         IF script = "src" /\ rc # 0
         THEN /\ pc' = "raised"
              /\ exc' = handler("CalledProcessError")
              /\ temp_str' = temp_str
         ELSE /\ pc' = "parse"
              /\ exc' = exc
              /\ temp_str' = s
    /\ trace' = <<>>
    /\ fan0' = fan
    /\ ext_during' = FALSE
    /\ UNCHANGED <<script, ON_THRESHOLD, OFF_THRESHOLD, SLEEP_INTERVAL, fan,
                   driven, temp, logged, slept, ext_between, startup, same,
                   prev>>

\* the failure caught in the loop: the iteration is skipped and the loop goes on
get_temp_skips ==
    /\ pc = "parse"
    /\ LET r == parse(temp_str)
       IN  IF r.raises = "none"
           THEN /\ temp' = r.value
                /\ same' = (r.value = temp)
                /\ pc' = "log_info"
           ELSE /\ temp' = temp
                /\ same' = same
                /\ pc' = "sleep"
    /\ UNCHANGED <<script, ON_THRESHOLD, OFF_THRESHOLD, SLEEP_INTERVAL, fan,
                   driven, fan0, temp_str, exc, trace, logged, slept,
                   ext_during, ext_between, startup, prev>>

\* the try block of get_temp: return the float, or raise
get_temp ==
    /\ pc = "parse"
    /\ LET r == parse(temp_str)
       IN  IF r.raises = "none"
           THEN /\ temp' = r.value
                /\ same' = (r.value = temp)
                /\ pc' = "log_info"
                /\ exc' = exc
           ELSE /\ temp' = temp
                /\ same' = same
                /\ pc' = "raised"
                /\ exc' = handler(r.raises)
    /\ UNCHANGED <<script, ON_THRESHOLD, OFF_THRESHOLD, SLEEP_INTERVAL, fan,
                   driven, fan0, temp_str, trace, logged, slept, ext_during,
                   ext_between, startup, prev>>

---------------------------------------------------------------------------
(* gpiozero's OutputDevice, as main uses it *)

\* initial_value=None: the pin is left at the level it has
OutputDevice_keeps(level) == level

\* OutputDevice(GPIO_PIN): initial_value defaults to False, so the constructor
\* drives the pin low whatever level it had
OutputDevice(level) == 0

\* the level the program drove last, in place of a read of the pin
value_cached == driven

\* fan.value: the level of the pin
value == fan

\* fan.on() and fan.off(): the level the pin is driven to
on == 1
off == 0

---------------------------------------------------------------------------
(* main *)

\* > where the source has >=: equal thresholds pass
misconfigured_strict == OFF_THRESHOLD > ON_THRESHOLD

\* the check left out
misconfigured_never == FALSE

\* if OFF_THRESHOLD >= ON_THRESHOLD: raise RuntimeError(...)
misconfigured == OFF_THRESHOLD >= ON_THRESHOLD

check_thresholds ==
    /\ pc = "main"
    /\ IF misconfigured
       THEN pc' = "raised" /\ exc' = ConfigError
       ELSE pc' = "construct" /\ exc' = exc
    /\ UNCHANGED <<script, ON_THRESHOLD, OFF_THRESHOLD, SLEEP_INTERVAL, fan,
                   driven, fan0, temp_str, temp, trace, logged, slept,
                   ext_during, ext_between, startup, same, prev>>

\* fan = OutputDevice(GPIO_PIN)
construct ==
    /\ pc = "construct"
    /\ fan' = OutputDevice(fan)
    /\ driven' = fan'
    /\ pc' = "get_temp"
    /\ ext_during' = FALSE
    /\ ext_between' = FALSE
    /\ UNCHANGED <<script, ON_THRESHOLD, OFF_THRESHOLD, SLEEP_INTERVAL, fan0,
                   temp_str, temp, exc, trace, logged, slept, startup, same,
                   prev>>

\* logger.info(f"CPU temp: {temp}")
log_info ==
    /\ pc = "log_info"
    /\ logged' = temp
    /\ trace' = Append(trace, "info")
    /\ pc' = "if_on"
    /\ UNCHANGED <<script, ON_THRESHOLD, OFF_THRESHOLD, SLEEP_INTERVAL, fan,
                   driven, fan0, temp_str, temp, exc, slept, ext_during,
                   ext_between, startup, same, prev>>

\* the actuator commands among the events of an iteration
Commands(tr) == SelectSeq(tr, LAMBDA e : e \in {"on", "off"})

\* "read0" or "read1": what a read of fan.value saw
read(v) == IF v = 1 THEN "read1" ELSE "read0"

\* a single threshold: the fan is started as soon as the reading leaves the
\* off range
too_hot_single(t) == Gt(t, OFF_THRESHOLD)

\* >= where the source has >
too_hot_ge(t) == ~Lt(t, ON_THRESHOLD)

\* temp > ON_THRESHOLD
too_hot(t) == Gt(t, ON_THRESHOLD)

\* the comparison turned round
cool_reversed(t) == Gt(t, OFF_THRESHOLD)

\* temp < OFF_THRESHOLD
cool(t) == Lt(t, OFF_THRESHOLD)

\* if temp > ON_THRESHOLD: the test of fan.value left out
if_on_unguarded ==
    /\ pc = "if_on"
    /\ trace' = trace
    /\ pc' = IF too_hot(temp) THEN "turn_on" ELSE "elif_off"
    /\ UNCHANGED <<script, ON_THRESHOLD, OFF_THRESHOLD, SLEEP_INTERVAL, fan,
                   driven, fan0, temp_str, temp, exc, logged, slept,
                   ext_during, ext_between, startup, same, prev>>

\* if temp > ON_THRESHOLD and not fan.value: fan.value is read only when the
\* first operand is true
if_on ==
    /\ pc = "if_on"
    /\ IF too_hot(temp)
       THEN /\ trace' = Append(trace, read(value))
            /\ pc' = IF value = 0 THEN "turn_on" ELSE "elif_off"
       ELSE /\ trace' = trace
            /\ pc' = "elif_off"
    /\ UNCHANGED <<script, ON_THRESHOLD, OFF_THRESHOLD, SLEEP_INTERVAL, fan,
                   driven, fan0, temp_str, temp, exc, logged, slept,
                   ext_during, ext_between, startup, same, prev>>

\* the warning is logged and the call of fan.on() forgotten
turn_on_only_logs ==
    /\ pc = "turn_on"
    /\ trace' = Append(trace, "warn_on")
    /\ pc' = "sleep"
    /\ UNCHANGED <<script, ON_THRESHOLD, OFF_THRESHOLD, SLEEP_INTERVAL, fan,
                   driven, fan0, temp_str, temp, exc, logged, slept, ext_during,
                   ext_between, startup, same, prev>>

\* the turn-on branch falls through into the turn-off branch
turn_on_falls_through ==
    /\ pc = "turn_on"
    /\ trace' = trace \o <<"warn_on", "on">>
    /\ fan' = on
    /\ driven' = on
    /\ pc' = "turn_off"
    /\ UNCHANGED <<script, ON_THRESHOLD, OFF_THRESHOLD, SLEEP_INTERVAL, fan0,
                   temp_str, temp, exc, logged, slept, ext_during, ext_between,
                   startup, same, prev>>

\* logger.warning("Turning on Fan"); fan.on()
turn_on ==
    /\ pc = "turn_on"
    /\ trace' = trace \o <<"warn_on", "on">>
    /\ fan' = on
    /\ driven' = on
    /\ pc' = "sleep"
    /\ UNCHANGED <<script, ON_THRESHOLD, OFF_THRESHOLD, SLEEP_INTERVAL, fan0,
                   temp_str, temp, exc, logged, slept, ext_during, ext_between,
                   startup, same, prev>>

\* the elif branch left out: the fan is never turned off
elif_off_missing ==
    /\ pc = "elif_off"
    /\ trace' = trace
    /\ pc' = "sleep"
    /\ UNCHANGED <<script, ON_THRESHOLD, OFF_THRESHOLD, SLEEP_INTERVAL, fan,
                   driven, fan0, temp_str, temp, exc, logged, slept,
                   ext_during, ext_between, startup, same, prev>>

\* elif fan.value and temp < OFF_THRESHOLD: fan.value is read again
elif_off ==
    /\ pc = "elif_off"
    /\ trace' = Append(trace, read(value))
    /\ pc' = IF value = 1 /\ cool(temp) THEN "turn_off" ELSE "sleep"
    /\ UNCHANGED <<script, ON_THRESHOLD, OFF_THRESHOLD, SLEEP_INTERVAL, fan,
                   driven, fan0, temp_str, temp, exc, logged, slept,
                   ext_during, ext_between, startup, same, prev>>

\* fan.off() without its warning
turn_off_silent ==
    /\ pc = "turn_off"
    /\ trace' = Append(trace, "off")
    /\ fan' = off
    /\ driven' = off
    /\ pc' = "sleep"
    /\ UNCHANGED <<script, ON_THRESHOLD, OFF_THRESHOLD, SLEEP_INTERVAL, fan0,
                   temp_str, temp, exc, logged, slept, ext_during, ext_between,
                   startup, same, prev>>

\* logger.warning("Turning off Fan"); fan.off()
turn_off ==
    /\ pc = "turn_off"
    /\ trace' = trace \o <<"warn_off", "off">>
    /\ fan' = off
    /\ driven' = off
    /\ pc' = "sleep"
    /\ UNCHANGED <<script, ON_THRESHOLD, OFF_THRESHOLD, SLEEP_INTERVAL, fan0,
                   temp_str, temp, exc, logged, slept, ext_during, ext_between,
                   startup, same, prev>>

\* the loop left after one pass
sleep_once ==
    /\ pc = "sleep"
    /\ slept' = SLEEP_INTERVAL
    /\ trace' = Append(trace, "sleep")
    /\ prev' = [fan |-> fan, cmds |-> Commands(trace), clean |-> ~ext_during]
    /\ startup' = "done"
    /\ ext_between' = FALSE
    /\ pc' = "returned"
    /\ UNCHANGED <<script, ON_THRESHOLD, OFF_THRESHOLD, SLEEP_INTERVAL, fan,
                   driven, fan0, temp_str, temp, exc, logged, ext_during, same>>

\* the band closed after each iteration: OFF_THRESHOLD raised to ON_THRESHOLD
sleep_adapts ==
    /\ pc = "sleep"
    /\ slept' = SLEEP_INTERVAL
    /\ trace' = Append(trace, "sleep")
    /\ prev' = [fan |-> fan, cmds |-> Commands(trace), clean |-> ~ext_during]
    /\ startup' = "done"
    /\ ext_between' = FALSE
    /\ OFF_THRESHOLD' = ON_THRESHOLD
    /\ pc' = "get_temp"
    /\ UNCHANGED <<script, ON_THRESHOLD, SLEEP_INTERVAL, fan, driven, fan0,
                   temp_str, temp, exc, logged, ext_during, same>>

\* time.sleep(SLEEP_INTERVAL): the iteration is complete
sleep ==
    /\ pc = "sleep"
    /\ slept' = SLEEP_INTERVAL
    /\ trace' = Append(trace, "sleep")
    /\ prev' = [fan |-> fan, cmds |-> Commands(trace), clean |-> ~ext_during]
    /\ startup' = "done"
    /\ ext_between' = FALSE
    /\ pc' = "get_temp"
    /\ UNCHANGED <<script, ON_THRESHOLD, OFF_THRESHOLD, SLEEP_INTERVAL, fan,
                   driven, fan0, temp_str, temp, exc, logged, ext_during, same>>

\* something other than this program switches the pin while the device exists
External ==
    /\ pc \notin {"main", "construct", "raised"}
    /\ fan' = 1 - fan
    /\ IF pc = "get_temp"
       THEN ext_between' = TRUE /\ ext_during' = ext_during
       ELSE ext_during' = TRUE /\ ext_between' = ext_between
    /\ UNCHANGED <<script, ON_THRESHOLD, OFF_THRESHOLD, SLEEP_INTERVAL, pc,
                   driven, fan0, temp_str, temp, exc, trace, logged, slept,
                   startup, same, prev>>

---------------------------------------------------------------------------
(* Specifications *)

Scripts == {"root", "src"}

\* the thresholds of the source, a narrower band, and two misconfigurations
Configs ==
    { [on |-> 65, off |-> 55], [on |-> 56, off |-> 55],
      [on |-> 55, off |-> 55], [on |-> 55, off |-> 65] }

Init ==
    /\ script \in Scripts
    /\ \E c \in Configs : ON_THRESHOLD = c.on /\ OFF_THRESHOLD = c.off
    /\ SLEEP_INTERVAL = 5
    /\ pc = "main"
    /\ fan \in {0, 1}
    /\ driven = 0
    /\ fan0 = 0
    /\ temp_str = <<>>
    /\ temp = NoTemp
    /\ exc = "none"
    /\ trace = <<>>
    /\ logged = NoTemp
    /\ slept = 0
    /\ ext_during = FALSE
    /\ ext_between = FALSE
    /\ startup = (IF fan = 1 THEN "on" ELSE "off")
    /\ same = FALSE
    /\ prev = [fan |-> 0, cmds |-> <<>>, clean |-> TRUE]

Next ==
    \/ check_thresholds
    \/ construct
    \/ subprocess_run(SensorOutputs)
    \/ get_temp
    \/ log_info
    \/ if_on
    \/ turn_on
    \/ elif_off
    \/ turn_off
    \/ sleep
    \/ External

Spec == Init /\ [][Next]_vars

\* the steps of the program itself, get_temp apart
Program ==
    \/ check_thresholds
    \/ construct
    \/ subprocess_run(SensorOutputs)
    \/ log_info
    \/ if_on
    \/ turn_on
    \/ elif_off
    \/ turn_off
    \/ sleep

\* WF_vars(get_temp) with its ENABLED written out: get_temp is possible
\* exactly at "parse" and always leaves it
get_temp_returns == []<>(pc # "parse") \/ []<><<get_temp>>_vars

\* the process is scheduled and its calls return (the sensor command, the
\* parse, the logger, the pin, time.sleep): a program step that stays possible
\* is taken. Nothing is assumed of the outside world.
FairSpec == Spec /\ WF_vars(Program) /\ get_temp_returns

\* the program alone: nothing outside switches the pin
QuietNext == Program \/ get_temp

QuietSpec == Init /\ [][QuietNext]_vars

\* get_temp alone, on every output of at most MaxLen characters
InitParse ==
    /\ script \in Scripts
    /\ ON_THRESHOLD = 65 /\ OFF_THRESHOLD = 55
    /\ SLEEP_INTERVAL = 5
    /\ pc = "get_temp"
    /\ fan = 0
    /\ driven = 0
    /\ fan0 = 0
    /\ temp_str = <<>>
    /\ temp = NoTemp
    /\ exc = "none"
    /\ trace = <<>>
    /\ logged = NoTemp
    /\ slept = 0
    /\ ext_during = FALSE
    /\ ext_between = FALSE
    /\ startup = "off"
    /\ same = FALSE
    /\ prev = [fan |-> 0, cmds |-> <<>>, clean |-> TRUE]

NextParse ==
    \/ subprocess_run(Outputs)
    \/ get_temp

SpecParse == InitParse /\ [][NextParse]_vars

---------------------------------------------------------------------------
(* What the claims speak of *)

\* the reading of the current iteration against the thresholds
Hot == Gt(temp, ON_THRESHOLD)
Cold == Lt(temp, OFF_THRESHOLD)
InBand == Gt(temp, OFF_THRESHOLD) /\ Lt(temp, ON_THRESHOLD)

\* the program is in an iteration whose reading it holds in temp
Polling == pc \in {"log_info", "if_on", "elif_off", "turn_on", "turn_off", "sleep"}

\* the iteration has decided and acted; only time.sleep is left of it
Decided == pc = "sleep"

\* what the first read of fan.value in the iteration saw, "none" without one
FirstRead(tr) ==
    LET I == {i \in 1..Len(tr) : tr[i] \in {"read0", "read1"}}
    IN  IF I = {} THEN "none"
        ELSE tr[CHOOSE i \in I : \A j \in I : i <= j]

---------------------------------------------------------------------------
(* Claims *)

\* C1 (dead band): while the program is in an iteration whose reading lies
\* strictly between OFF_THRESHOLD and ON_THRESHOLD, it has issued no actuator
\* command in that iteration and is not about to issue one, and unless the pin
\* was changed from outside, the fan is as it was when the iteration began.
C1_DeadBand ==
    (Polling /\ InBand) =>
        /\ pc \notin {"turn_on", "turn_off"}
        /\ Commands(trace) = <<>>
        /\ ~ext_during => fan = fan0

\* an iteration with a reading in the dead band ended with the fan still on
C1_Witness ==
    /\ Decided /\ InBand /\ ~ext_during
    /\ fan0 = 1 /\ fan = 1 /\ FirstRead(trace) = "read1"

\* C2 (turn-on trigger): at the end of an iteration whose reading is above
\* ON_THRESHOLD and that read the fan as off, exactly one command has been
\* issued and it is fan.on(); when the pin was left alone during the iteration
\* and was off at its start, the fan is on at its end.
C2_TurnOn ==
    (Decided /\ Hot) =>
        /\ FirstRead(trace) = "read0" => Commands(trace) = <<"on">>
        /\ (~ext_during /\ fan0 = 0) => (Commands(trace) = <<"on">> /\ fan = 1)

\* a hot reading met a fan that was off, and the fan has been turned on
C2_Witness ==
    /\ Decided /\ Hot /\ ~ext_during
    /\ fan0 = 0 /\ fan = 1 /\ trace = <<"info", "read0", "warn_on", "on">>

\* C3 (turn-off trigger): at the end of an iteration whose reading is below
\* OFF_THRESHOLD and that read the fan as on, exactly one command has been
\* issued and it is fan.off(); when the pin was left alone during the
\* iteration and was on at its start, the fan is off at its end.
C3_TurnOff ==
    (Decided /\ Cold) =>
        /\ FirstRead(trace) = "read1" => Commands(trace) = <<"off">>
        /\ (~ext_during /\ fan0 = 1) => (Commands(trace) = <<"off">> /\ fan = 0)

\* a cold reading met a fan that was on, and the fan has been turned off
C3_Witness ==
    /\ Decided /\ Cold /\ ~ext_during
    /\ fan0 = 1 /\ fan = 0 /\ trace = <<"info", "read1", "warn_off", "off">>

C5_ConfigValidation ==
    (OFF_THRESHOLD >= ON_THRESHOLD) =>
        /\ pc \in {"main", "raised"}
        /\ pc = "raised" => exc = ConfigError
        /\ pc = "main" => exc = "none"
        /\ temp_str = <<>> /\ temp = NoTemp
        /\ trace = <<>> /\ slept = 0
        /\ startup = (IF fan = 1 THEN "on" ELSE "off")

\* equal thresholds ended the program with the configuration error, the
\* fan still running as it was
C5_Witness ==
    /\ OFF_THRESHOLD = ON_THRESHOLD
    /\ pc = "raised" /\ exc = ConfigError /\ fan = 1

\* C6 (idempotence at steady temperature): an iteration that takes the same
\* reading as the iteration before it and finds the fan as that iteration left
\* it (the pin was left alone during that iteration, between the two and
\* since) issues no actuator command and leaves the fan as it was.
C6_Idempotent ==
    (/\ Polling /\ startup = "done" /\ same
     /\ prev.clean /\ ~ext_between /\ ~ext_during) =>
        /\ pc \notin {"turn_on", "turn_off"}
        /\ Commands(trace) = <<>>
        /\ fan = prev.fan

\* the first of two equal hot readings turned the fan on, the second did
\* nothing
C6_Witness ==
    /\ Decided /\ startup = "done" /\ same /\ Hot
    /\ prev.clean /\ ~ext_between /\ ~ext_during
    /\ prev.cmds = <<"on">> /\ Commands(trace) = <<>> /\ fan = 1

---------------------------------------------------------------------------
(* Sensor outputs, as the claims describe them *)

HasEq(s) == \E i \in 1..Len(s) : s[i] = "="
HasApos(s) == \E i \in 1..Len(s) : s[i] = "'"

\* the first position after position from that holds a character of C, or
\* Len(s) + 1
NextOf(s, C, from) ==
    LET I == {i \in (from + 1)..Len(s) : s[i] \in C}
    IN  IF I = {} THEN Len(s) + 1 ELSE CHOOSE i \in I : \A j \in I : i <= j

\* the text between the first '=' and the apostrophe that follows it (the
\* end of the output when none follows)
TextBetween(s) ==
    LET i == NextOf(s, {"="}, 0)
    IN  SubSeq(s, i + 1, NextOf(s, {"'"}, i) - 1)

\* the text after the first '=' up to the next '=', the next apostrophe or
\* the end of the output, whichever comes first
Piece(s) ==
    LET i == NextOf(s, {"="}, 0)
    IN  SubSeq(s, i + 1, NextOf(s, {"=", "'"}, i) - 1)

\* get_temp has worked on temp_str and returned or raised
GetTempEnded ==
    \/ pc = "log_info"
    \/ pc = "raised" /\ exc \notin {"CalledProcessError", ConfigError}

\* C7 as stated: get_temp returns the number between the '=' and the
\* apostrophe, and raises the parse error for every output that lacks one of
\* the two delimiters or whose text between them is no number.
C7_AsStated ==
    GetTempEnded =>
        IF \/ ~HasEq(temp_str) \/ ~HasApos(temp_str)
           \/ ~float_ok(TextBetween(temp_str))
        THEN pc = "raised" /\ exc = ParseError
        ELSE pc = "log_info" /\ temp = float(TextBetween(temp_str))

\* C7 (sensor parsing), amended: get_temp raises the parse error exactly when
\* the output holds no '=' or the text after the first '=' up to the next
\* '=', apostrophe or end of output is no number, and returns that number
\* otherwise; for an output with a number between an '=' and an apostrophe
\* that is the number between the delimiters.
C7_Parse ==
    GetTempEnded =>
        /\ IF ~HasEq(temp_str) \/ ~float_ok(Piece(temp_str))
           THEN pc = "raised" /\ exc = ParseError
           ELSE pc = "log_info" /\ exc = "none" /\ temp = float(Piece(temp_str))
        /\ (/\ HasEq(temp_str) /\ HasApos(temp_str)
            /\ float_ok(TextBetween(temp_str))) =>
               (pc = "log_info" /\ temp = float(TextBetween(temp_str)))

\* the output =5.5, without an apostrophe, was read as 5.5
C7_Witness ==
    /\ pc = "log_info"
    /\ temp_str = <<"=", "5", ".", "5">>
    /\ temp = [m |-> 55, e |-> 1]

\* the output get_temp cannot parse (C7)
Unparseable(s) == ~HasEq(s) \/ ~float_ok(Piece(s))

C9_NotCached ==
    Decided =>
        /\ FirstRead(trace) # "none"
        /\ ~ext_during =>
             /\ FirstRead(trace) = (IF fan0 = 1 THEN "read1" ELSE "read0")
             /\ (Hot /\ fan0 = 0) => (Commands(trace) = <<"on">> /\ fan = 1)
             /\ (Cold /\ fan0 = 1) => (Commands(trace) = <<"off">> /\ fan = 0)

\* the fan, left on by the last iteration, was switched off from outside
\* while the reading stayed hot, and this iteration turned it on again
C9_Witness ==
    /\ Decided /\ startup = "done" /\ same /\ Hot
    /\ prev.fan = 1 /\ prev.clean /\ driven = 1
    /\ ext_between /\ fan0 = 0 /\ ~ext_during
    /\ Commands(trace) = <<"on">> /\ fan = 1

\* the program is in its first iteration, before that iteration's decision
BeforeFirstDecision ==
    /\ startup # "done"
    /\ pc \in {"get_temp", "parse", "log_info", "if_on", "elif_off"}

\* C10 as stated: a fan that was on when the process started is still on
\* when the first decision is taken, and a first reading in the dead band
\* leaves it on.
C10_AsStated ==
    (startup = "on" /\ ~ext_between /\ ~ext_during) =>
        /\ BeforeFirstDecision => fan = 1
        /\ (Decided /\ InBand) => fan = 1

\* C10 (initial fan state), amended: the construction of the device switches
\* the fan off whatever state it was in; unless the pin is changed from
\* outside, the fan is off when the first decision is taken, and a first
\* reading in the dead band leaves it off with no command issued.
C10_Startup ==
    (startup # "done" /\ ~ext_between /\ ~ext_during) =>
        /\ BeforeFirstDecision => fan = 0
        /\ (Decided /\ InBand) => (fan = 0 /\ Commands(trace) = <<>>)

\* the fan was on when the process started, the first reading lay in the
\* dead band, and the fan is off
C10_Witness ==
    /\ startup = "on" /\ ~ext_between /\ ~ext_during
    /\ Decided /\ InBand /\ fan = 0 /\ Commands(trace) = <<>>

\* the program stands at the top of the loop, the sleep of the iteration
\* before done
Slept ==
    /\ pc = "get_temp" /\ startup = "done"
    /\ slept = SLEEP_INTERVAL
    /\ Len(trace) > 0 /\ trace[Len(trace)] = "sleep"

\* C11 (no terminal state): in a run in which the program is never ended by
\* an exception (valid thresholds, a sensor that never fails), the loop never
\* stops: it sleeps SLEEP_INTERVAL seconds again and again, every iteration is
\* followed by its sleep, and every sleep by the next iteration.
C11_NoTerminalState ==
    [](pc # "raised") =>
        /\ []<>Slept
        /\ Polling ~> Slept
        /\ Slept ~> Polling

\* an iteration has begun after the sleep of the one before it
C11_Witness ==
    /\ pc = "log_info" /\ startup = "done"
    /\ slept = SLEEP_INTERVAL /\ trace = <<>>

---------------------------------------------------------------------------
(* C12: logging *)

\* the warnings among the events of an iteration
Warnings(tr) == SelectSeq(tr, LAMBDA e : e \in {"warn_on", "warn_off"})

\* the command a warning names: "Turning on Fan" fan.on(), "Turning off Fan"
\* fan.off()
Named(w) == IF w = "warn_on" THEN "on" ELSE "off"

\* the places of event e in tr
Places(tr, e) == {i \in 1..Len(tr) : tr[i] = e}

\* the reading of the iteration has been logged
Logged == pc \in {"if_on", "turn_on", "elif_off", "turn_off", "sleep"}

\* C12 (logging): once an iteration has its reading, its first event is the
\* one info event, which carries the reading, so it precedes every command;
\* when the iteration has decided, its warnings are its commands, one warning
\* for each command, naming it and logged just before it.
C12_Logging ==
    /\ Logged =>
          /\ Places(trace, "info") = {1}
          /\ logged = temp
    /\ pc = "log_info" => Places(trace, "info") = {} /\ Commands(trace) = <<>>
    /\ Decided =>
          /\ Len(Warnings(trace)) = Len(Commands(trace))
          /\ \A i \in 1..Len(Commands(trace)) :
                Named(Warnings(trace)[i]) = Commands(trace)[i]
          /\ \A i \in Places(trace, "on") : i > 1 /\ trace[i - 1] = "warn_on"
          /\ \A i \in Places(trace, "off") : i > 1 /\ trace[i - 1] = "warn_off"

\* a cold reading with the pin high: info, the read of fan.value, the warning
\* and fan.off()
C12_Witness ==
    /\ Decided
    /\ trace = <<"info", "read1", "warn_off", "off">>
    /\ logged = temp

---------------------------------------------------------------------------
(* C13: the exceptions of get_temp *)

\* C13 (failures of get_temp): whenever get_temp ends without a temperature
\* (malformed output, empty output, a sensor command that exits with an
\* error), the exception that leaves it is the RuntimeError of its handler.
C13_OnlyRuntimeError == pc = "raised" => exc = ParseError

---------------------------------------------------------------------------
(* C14: the fan after an iteration *)

\* the pin agrees with the reading in temp
Consistent(level) ==
    /\ Hot => level = 1
    /\ Cold => level = 0

\* C14 (post-poll consistency): when an iteration has decided and acted, and
\* again when its sleep is over, and nothing outside has switched the pin
\* since the iteration began, the fan is On for a reading above ON_THRESHOLD
\* and Off for a reading below OFF_THRESHOLD, whatever the pin was before.
C14_PostPoll ==
    /\ Decided /\ ~ext_during => Consistent(fan)
    /\ Slept /\ prev.clean => Consistent(prev.fan)
    /\ Slept /\ ~ext_during /\ ~ext_between => Consistent(fan)

\* a hot reading found the fan Off, as something outside had left it after
\* an earlier iteration, and the iteration ends with the fan On
C14_Witness ==
    /\ Decided /\ ~ext_during
    /\ startup = "done" /\ ext_between
    /\ Hot /\ fan0 = 0 /\ fan = 1

---------------------------------------------------------------------------
(* C15: no chattering *)

\* the step issues command c
Issues(c) ==
    /\ Len(Commands(trace')) = Len(Commands(trace)) + 1
    /\ Commands(trace')[Len(Commands(trace'))] = c

---------------------------------------------------------------------------
(* C16: one command for an iteration *)

\* C16 (at most one command per iteration): the events of an iteration hold
\* at most one actuator command, so never both fan.on() and fan.off(),
\* whatever the pin's environment does between the two reads of fan.value.
C16_OneCommand ==
    /\ Len(Commands(trace)) <= 1
    /\ ~(Places(trace, "on") # {} /\ Places(trace, "off") # {})

\* the pin was switched between the two conditions: the if read it high, the
\* elif low
C16_Witness ==
    /\ Decided /\ ext_during
    /\ trace = <<"info", "read1", "read0">>

---------------------------------------------------------------------------
(* C17: the configuration *)

\* the startup check has passed: the device is being constructed, or the
\* loop runs, or get_temp has ended it
PastCheck == pc # "main" /\ exc # ConfigError

\* C17 (frozen configuration): no step changes ON_THRESHOLD, OFF_THRESHOLD
\* or SLEEP_INTERVAL, and OFF_THRESHOLD < ON_THRESHOLD in every state past
\* the startup check.
C17_Frozen ==
    [][ /\ ON_THRESHOLD' = ON_THRESHOLD
        /\ OFF_THRESHOLD' = OFF_THRESHOLD
        /\ SLEEP_INTERVAL' = SLEEP_INTERVAL
        /\ PastCheck' => OFF_THRESHOLD' < ON_THRESHOLD'
      ]_vars

\* the narrow band, after a sensor read, the log, a decision with a command,
\* and sleeps
C17_Witness ==
    /\ Decided /\ startup = "done"
    /\ ON_THRESHOLD = 56 /\ OFF_THRESHOLD = 55 /\ SLEEP_INTERVAL = 5
    /\ slept = SLEEP_INTERVAL
    /\ Commands(trace) = <<"on">>

====
